---- MODULE Spec2Model ----
(***************************************************************************)
(* A model of corpus-count (src/src/main.rs): the character n-gram         *)
(* iterator NGrams, the rank sort counted_into_sorted and the pipeline of  *)
(* main.                                                                   *)
(*                                                                         *)
(* A Rust str is modelled as the sequence of its UTF-8 bytes (numbers      *)
(* 0..255); byte offsets are 0-based as in the source, sequences 1-based.  *)
(* A HashMap is a function whose DOMAIN is its key set; its iteration      *)
(* order is a nondeterministic choice among IterOrders, all its orders.    *)
(***************************************************************************)
EXTENDS Integers, Sequences, FiniteSets, TLC

(* ------------------------------ bounds -------------------------------- *)

\* longest string (in characters) handed to NGrams::new in SpecNGrams
MaxLen == 3
\* largest min_n / max_n drawn in SpecNGrams
MaxN == 3
\* calls of next() made after it has returned None for the first time
MaxNoneCalls == 2
\* largest count of a mapping entry drawn in SpecSorted
MaxCnt == 2
\* largest number of corpus lines drawn in Spec
MaxLines == 2
\* largest token_min / ngram_min drawn in Spec
MaxMin == 2
\* largest min_n / max_n drawn in Spec
MaxPipeN == 2
\* largest HashMap of which Spec explores every iteration order
MaxAllOrders == 4

\* usize::MAX, the value a wrapping `ngram_len -= 1` leaves at 0 in a build
\* without overflow checks (stands for 2^64 - 1; the largest TLC integer)
USIZE_MAX == 2147483647

(* --------------------------- generic helpers --------------------------- *)

Min(a, b) == IF a <= b THEN a ELSE b

Range(s) == { s[i] : i \in 1..Len(s) }

RECURSIVE Concat(_)
Concat(ss) == IF ss = <<>> THEN <<>> ELSE Head(ss) \o Concat(Tail(ss))

RECURSIVE SumSeq(_)
SumSeq(ns) == IF ns = <<>> THEN 0 ELSE Head(ns) + SumSeq(Tail(ns))

(* ------------------------------- UTF-8 --------------------------------- *)

\* width in bytes of the character whose first byte is b (str::char_indices)
Utf8Width(b) ==
    IF b < 128 THEN 1 ELSE IF b < 224 THEN 2 ELSE IF b < 240 THEN 3 ELSE 4

\* string.char_indices().map(|(idx, _)| idx): the byte offset of each char
RECURSIVE CharIndicesFrom(_, _)
CharIndicesFrom(s, i) ==
    IF i >= Len(s) THEN <<>>
    ELSE <<i>> \o CharIndicesFrom(s, i + Utf8Width(s[i + 1]))

CharIndicesBad(s) == [ i \in 1..Len(s) |-> i - 1 ]
CharIndices(s) == CharIndicesFrom(s, 0)

\* str::is_char_boundary: the ends, or a byte that is no continuation byte
IsCharBoundary(s, i) ==
    \/ i = 0
    \/ i = Len(s)
    \/ i < Len(s) /\ s[i + 1] \notin 128..191

\* &string[a..b]: the bytes a..b-1, a panic unless a <= b <= len and both
\* are character boundaries
SliceOk(s, a, b) ==
    a <= b /\ b <= Len(s) /\ IsCharBoundary(s, a) /\ IsCharBoundary(s, b)

Slice(s, a, b) == SubSeq(s, a + 1, b)

(* ------------------------------- NGrams -------------------------------- *)

\* NGrams::new
NGramsNew(string, min_n, max_n) ==
    LET char_offsets == CharIndices(string)
    IN  [ min_n |-> min_n,
          max_n |-> max_n,
          string |-> string,
          char_offsets |-> char_offsets,
          ngram_len |-> Min(max_n, Len(char_offsets)) ]

\* VecDeque::pop_front: nothing happens on an empty deque
PopFrontBad(q) == IF q = <<>> THEN q ELSE SubSeq(q, 1, Len(q) - 1)
PopFront(q) == IF q = <<>> THEN q ELSE Tail(q)

\* the recomputation of the candidate length for a new suffix
SuffixLenBad(max_n, window) == max_n
SuffixLen(max_n, window) == Min(max_n, Len(window))

\* `if self.ngram_len < self.min_n`: the current suffix is used up
SuffixExhaustedBad(g) == g.ngram_len <= g.min_n
SuffixExhausted(g) == g.ngram_len < g.min_n

\* next(), first half: move to the next suffix when the current one is
\* exhausted.  exhausted = TRUE is `return None`.
NextAdvance(g) ==
    IF SuffixExhausted(g)
    THEN LET q == PopFront(g.char_offsets)
         IN  IF Len(q) < g.min_n
             THEN [ it |-> [g EXCEPT !.char_offsets = q], exhausted |-> TRUE ]
             ELSE [ it |-> [g EXCEPT !.char_offsets = q,
                                     !.ngram_len = SuffixLen(g.max_n, q)],
                    exhausted |-> FALSE ]
    ELSE [ it |-> g, exhausted |-> FALSE ]

\* the byte range [lo, hi) the second half of next() slices
EmitLo(g) == g.char_offsets[1]
EmitHi(g) ==
    IF g.ngram_len = Len(g.char_offsets)
    THEN Len(g.string)
    ELSE g.char_offsets[g.ngram_len + 1]

\* the indexing and slicing of the second half of next() succeed
EmitOk(g) ==
    /\ g.char_offsets # <<>>
    /\ \/ g.ngram_len = Len(g.char_offsets)
       \/ g.ngram_len >= 0 /\ g.ngram_len < Len(g.char_offsets)
    /\ SliceOk(g.string, EmitLo(g), EmitHi(g))

\* next(), second half: the item, and the iterator after `ngram_len -= 1`
EmitItem(g) == Slice(g.string, EmitLo(g), EmitHi(g))
EmitRange(g) == <<EmitLo(g), EmitHi(g)>>

\* `self.ngram_len -= 1` at 0: a build with overflow checks panics there,
\* before `Some(ngram)` is returned; a build without them wraps
SubOverflows(g) == g.ngram_len = 0

\* the iterator after a `ngram_len -= 1` that does not panic
Decremented(g) ==
    IF g.ngram_len > 0 THEN { [g EXCEPT !.ngram_len = g.ngram_len - 1] }
    ELSE { [g EXCEPT !.ngram_len = USIZE_MAX] }

\* the marker that ends the items of a loop that panicked
PanicMark == <<-1>>

\* `for ngram in NGrams::new(..)`: the sequences of items the loop can
\* receive: the items up to the first None, or, when a call panics (an
\* index or a slice out of range, the subtraction at 0 in a build with
\* overflow checks), the items returned before it and then PanicMark.  At
\* ngram_len = 0 a wrapping build returns the item and goes on.
RECURSIVE Drain(_)
Drain(g) ==
    LET a == NextAdvance(g)
    IN  IF a.exhausted THEN { <<>> }
        ELSE IF ~EmitOk(a.it) THEN { <<PanicMark>> }
        ELSE (IF SubOverflows(a.it) THEN { <<PanicMark>> } ELSE {})
             \cup UNION { { <<EmitItem(a.it)>> \o r : r \in Drain(d) } :
                            d \in Decremented(a.it) }

(* ------------------------- counted_into_sorted ------------------------- *)

\* str::cmp: the byte-wise lexicographic order of two strings
RECURSIVE StrCmp(_, _)
StrCmp(a, b) ==
    IF a = <<>> /\ b = <<>> THEN "Equal"
    ELSE IF a = <<>> THEN "Less"
    ELSE IF b = <<>> THEN "Greater"
    ELSE IF Head(a) < Head(b) THEN "Less"
    ELSE IF Head(a) > Head(b) THEN "Greater"
    ELSE StrCmp(Tail(a), Tail(b))

\* usize::cmp
NumCmp(a, b) == IF a < b THEN "Less" ELSE IF a > b THEN "Greater" ELSE "Equal"

\* the comparator of sort_unstable_by on entries <<string, count>>:
\* match c2.cmp(c1) { Equal => t1.cmp(t2), o => o }
CmpCounted(x, y) ==
    IF NumCmp(y[2], x[2]) = "Equal" THEN StrCmp(x[1], y[1])
    ELSE NumCmp(y[2], x[2])

\* .filter(|(_, cnt)| *cnt >= min_freq)
KeepEntryBad(e, min_freq) == e[2] > min_freq
KeepEntry(e, min_freq) == e[2] >= min_freq

InsertAt(s, p, x) == SubSeq(s, 1, p) \o <<x>> \o SubSeq(s, p + 1, Len(s))

\* sort_unstable_by: the elements in an order the comparator accepts; where
\* it answers Equal either order may come out.  The input is taken element
\* by element and each is put at any place the comparator allows.
InsertOutcomes(s, x) ==
    { InsertAt(s, p, x) : p \in
        { q \in 0..Len(s) :
            /\ \A i \in 1..q : CmpCounted(s[i], x) # "Greater"
            /\ \A i \in (q + 1)..Len(s) : CmpCounted(x, s[i]) # "Greater" } }

RECURSIVE SortOutcomes(_)
SortOutcomes(items) ==
    IF items = <<>> THEN { <<>> }
    ELSE UNION { InsertOutcomes(r, items[Len(items)]) :
                    r \in SortOutcomes(SubSeq(items, 1, Len(items) - 1)) }

\* Option<usize>
None == [ some |-> FALSE, v |-> 0 ]
Some(v) == [ some |-> TRUE, v |-> v ]

\* counted_into_sorted(iter, filter): the set of vectors it can return
CountedIntoSortedBad(iter, filter) ==
    { IF filter.some
      THEN SelectSeq(iter, LAMBDA e : KeepEntry(e, filter.v))
      ELSE iter }
CountedIntoSorted(iter, filter) ==
    LET items == IF filter.some
                 THEN SelectSeq(iter, LAMBDA e : KeepEntry(e, filter.v))
                 ELSE iter
    IN  SortOutcomes(items)

\* HashMap::into_iter: the entries <<key, value>> in an arbitrary order
RECURSIVE Perms(_)
Perms(S) ==
    IF S = {} THEN { <<>> }
    ELSE UNION { { <<x>> \o p : p \in Perms(S \ { x }) } : x \in S }

RECURSIVE KeySorted(_)
KeySorted(S) ==
    IF S = {} THEN <<>>
    ELSE LET least == CHOOSE x \in S :
                         \A y \in S \ { x } : StrCmp(x, y) = "Less"
         IN  <<least>> \o KeySorted(S \ { least })

Rotate(s, r) == SubSeq(s, r + 1, Len(s)) \o SubSeq(s, 1, r)
Reverse(s) == [ i \in 1..Len(s) |-> s[Len(s) + 1 - i] ]

KeyOrders(S) == Perms(S)

IterOrders(m) ==
    { [ i \in 1..Len(ks) |-> <<ks[i], m[ks[i]]>> ] : ks \in KeyOrders(DOMAIN m) }

\* The iteration orders Spec explores: all of IterOrders(m) for a map of
\* up to MaxAllOrders entries; of a larger map (n! orders) a part of
\* them, the rotations of the key-sorted order and their reversals.
ExploredOrders(m) ==
    IF Cardinality(DOMAIN m) <= MaxAllOrders THEN IterOrders(m)
    ELSE LET base == KeySorted(DOMAIN m)
             some == { Rotate(base, r) : r \in 0..(Len(base) - 1) }
                       \cup { Reverse(Rotate(base, r)) : r \in 0..(Len(base) - 1) }
         IN  { [ i \in 1..Len(ks) |-> <<ks[i], m[ks[i]]>> ] : ks \in some }

(* -------------------------------- main --------------------------------- *)

\* char::is_whitespace, on the UTF-8 bytes of one character (White_Space)
IsWhitespace(c) ==
    \/ Len(c) = 1 /\ (c[1] \in 9..13 \/ c[1] = 32)
    \/ c = <<194, 133>> \/ c = <<194, 160>> \/ c = <<225, 154, 128>>
    \/ Len(c) = 3 /\ c[1] = 226 /\ c[2] = 128
         /\ (c[3] \in 128..138 \/ c[3] \in 168..169 \/ c[3] = 175)
    \/ c = <<226, 129, 159>> \/ c = <<227, 128, 128>>

\* the characters of a string, each as its bytes
Chars(s) ==
    LET offs == CharIndices(s)
    IN  [ k \in 1..Len(offs) |->
            SubSeq(s, offs[k] + 1,
                   IF k = Len(offs) THEN Len(s) ELSE offs[k + 1]) ]

\* line.split_whitespace(): the maximal runs of non-whitespace characters
RECURSIVE SplitChars(_, _)
SplitChars(cs, cur) ==
    IF cs = <<>> THEN (IF cur = <<>> THEN <<>> ELSE <<cur>>)
    ELSE IF IsWhitespace(Head(cs))
         THEN (IF cur = <<>> THEN <<>> ELSE <<cur>>) \o SplitChars(Tail(cs), <<>>)
         ELSE SplitChars(Tail(cs), cur \o Head(cs))

SplitWhitespace(line) == SplitChars(Chars(line), <<>>)

\* if let Some(cnt) = map.get_mut(key) { *cnt += n } else { map.insert(key, n) }
AddCountBad(m, key, n) ==
    [ k \in DOMAIN m \cup { key } |-> IF k = key THEN n ELSE m[k] ]
AddCount(m, key, n) ==
    [ k \in DOMAIN m \cup { key } |->
        IF k = key THEN (IF key \in DOMAIN m THEN m[key] + n ELSE n)
        ELSE m[k] ]

\* AddCount for each string of a sequence in turn
RECURSIVE AddAll(_, _, _)
AddAll(m, keys, n) ==
    IF keys = <<>> THEN m
    ELSE AddAll(AddCount(m, Head(keys), n), Tail(keys), n)

\* the decimal digits of a usize ("{}")
RECURSIVE Decimal(_)
Decimal(n) ==
    IF n < 10 THEN <<48 + n>> ELSE Decimal(n \div 10) \o <<48 + (n % 10)>>

\* writeln!(w, "{}\t{}", s, n)
FormatLine(s, n) == s \o <<9>> \o Decimal(n) \o <<10>>

\* '<' + token + '>'
Bracketed(token) == <<60>> \o token \o <<62>>

\* the token handed to NGrams::new and named `token` from line 85 on
Shadowed(token, bracket) == IF bracket THEN Bracketed(token) ELSE token

\* the loop over the items ended in a panic
Panicked(items) == items # <<>> /\ items[Len(items)] = PanicMark

(* --------------------------- state of the model ------------------------ *)

VARIABLES
    it,        \* SpecNGrams: the NGrams value
    ipc,       \* SpecNGrams: "call" (between calls), "emit" (line 251), "panic"
    emitted,   \* SpecNGrams: the items returned so far
    ranges,    \* SpecNGrams: the byte range of each returned item
    lastRet,   \* SpecNGrams: what the last finished call returned
    noneCalls, \* SpecNGrams: calls that have returned None
    counts,    \* SpecSorted: the count mapping handed to counted_into_sorted
    filter,    \* SpecSorted: its Option<usize> argument
    spc,       \* SpecSorted: "call" before the call, "done" after it
    sorted,    \* SpecSorted: the vector returned
    cfg,          \* Spec: the parsed command line
    corpus,       \* Spec: the lines of the corpus
    pc,           \* Spec: the position in main
    linesRead,    \* Spec: corpus lines read by this run
    tokenOut,     \* Spec: the token sink: opened by this run, lines held
    ngramOut,     \* Spec: the n-gram file: created by this run, lines held
    token_map,    \* Spec: token_counts, the HashMap of lines 61-71
    token_vec,    \* Spec: token_counts, the sorted Vec of lines 73-77
    idx,          \* Spec: the position of the loop of line 81 in token_vec
    ngram_counts, \* Spec: the HashMap of line 80
    run,          \* Spec: 1 in the first run of the program, 2 in the second
    prevOut       \* Spec: what the first run left in the two sinks

ngVars == <<it, ipc, emitted, ranges, lastRet, noneCalls>>
sortVars == <<counts, filter, spc, sorted>>
mainVars == <<cfg, corpus, pc, linesRead, tokenOut, ngramOut, token_map,
              token_vec, idx, ngram_counts, run, prevOut>>
vars == <<ngVars, sortVars, mainVars>>

IdleNGrams ==
    /\ it = NGramsNew(<<>>, 1, 1)
    /\ ipc = "idle"
    /\ emitted = <<>>
    /\ ranges = <<>>
    /\ lastRet = "new"
    /\ noneCalls = 0

IdleSorted ==
    /\ counts = <<>>
    /\ filter = None
    /\ spc = "idle"
    /\ sorted = <<>>

IdleMain ==
    /\ cfg = <<>>
    /\ corpus = <<>>
    /\ pc = "idle"
    /\ linesRead = 0
    /\ tokenOut = <<>>
    /\ ngramOut = <<>>
    /\ token_map = <<>>
    /\ token_vec = <<>>
    /\ idx = 0
    /\ ngram_counts = <<>>
    /\ run = 0
    /\ prevOut = <<>>

(* ------------------------------ SpecNGrams ----------------------------- *)

\* "a" (1 byte), U+00E9 (2 bytes), U+20AC (3 bytes), U+1D11E (4 bytes)
Alphabet == { <<97>>, <<195, 169>>, <<226, 130, 172>>, <<240, 157, 132, 158>> }

RECURSIVE CharSeqs(_)
CharSeqs(n) ==
    IF n = 0 THEN { <<>> }
    ELSE LET shorter == CharSeqs(n - 1)
         IN  shorter \cup { <<c>> \o cs : c \in Alphabet, cs \in shorter }

\* "hello"
Hello == <<104, 101, 108, 108, 111>>

Strings == { Concat(cs) : cs \in CharSeqs(MaxLen) } \cup { Hello }

InitNGrams ==
    /\ \E s \in Strings, max_n \in 1..MaxN :
         \E min_n \in 1..max_n : it = NGramsNew(s, min_n, max_n)
    /\ ipc = "call"
    /\ emitted = <<>>
    /\ ranges = <<>>
    /\ lastRet = "new"
    /\ noneCalls = 0
    /\ IdleSorted
    /\ IdleMain

\* next() up to line 249
CallNext ==
    /\ ipc = "call"
    /\ noneCalls < MaxNoneCalls
    /\ LET a == NextAdvance(it)
       IN  /\ it' = a.it
           /\ IF a.exhausted
              THEN /\ ipc' = "call"
                   /\ lastRet' = "None"
                   /\ noneCalls' = noneCalls + 1
              ELSE /\ ipc' = "emit"
                   /\ UNCHANGED <<lastRet, noneCalls>>
    /\ UNCHANGED <<emitted, ranges, sortVars, mainVars>>

\* next() from line 251
ReturnSome ==
    /\ ipc = "emit"
    /\ IF EmitOk(it)
       THEN \/ /\ it' \in Decremented(it)
               /\ emitted' = Append(emitted, EmitItem(it))
               /\ ranges' = Append(ranges, EmitRange(it))
               /\ ipc' = "call"
               /\ lastRet' = "Some"
            \/ /\ SubOverflows(it)
               /\ ipc' = "panic"
               /\ UNCHANGED <<it, emitted, ranges, lastRet>>
       ELSE /\ ipc' = "panic"
            /\ UNCHANGED <<it, emitted, ranges, lastRet>>
    /\ UNCHANGED <<noneCalls, sortVars, mainVars>>

NextNGrams == CallNext \/ ReturnSome

SpecNGrams == InitNGrams /\ [][NextNGrams]_vars

(* ------------------------------ SpecSorted ----------------------------- *)

\* "B", "a", "ab", "b"
SortKeys == { <<66>>, <<97>>, <<97, 98>>, <<98>> }

CountMaps == UNION { [ D -> 0..MaxCnt ] : D \in SUBSET SortKeys }

InitSorted ==
    /\ counts \in CountMaps
    /\ filter \in { None } \cup { Some(v) : v \in 0..(MaxCnt + 1) }
    /\ spc = "call"
    /\ sorted = <<>>
    /\ IdleNGrams
    /\ IdleMain

\* one call of counted_into_sorted on the mapping
SortCall ==
    /\ spc = "call"
    /\ \E iter \in IterOrders(counts) :
         \E r \in CountedIntoSorted(iter, filter) : sorted' = r
    /\ spc' = "done"
    /\ UNCHANGED <<counts, filter, ngVars, mainVars>>

NextSorted == SortCall

SpecSorted == InitSorted /\ [][NextSorted]_vars

(* --------------------------------- Spec -------------------------------- *)

\* "ab"; "a a b"; "aa", TAB, U+00E9, NO-BREAK SPACE, "a", SPACE
CorpusLines ==
    { <<97, 98>>,
      <<97, 32, 97, 32, 98>>,
      <<97, 97, 9, 195, 169, 194, 160, 97, 32>> }

RECURSIVE SeqsUpTo(_, _)
SeqsUpTo(S, n) ==
    IF n = 0 THEN { <<>> }
    ELSE LET shorter == SeqsUpTo(S, n - 1)
         IN  shorter \cup { <<x>> \o s : x \in S, s \in shorter }

Configs ==
    [ ngram_counts : BOOLEAN, bracket : BOOLEAN, filter_first : BOOLEAN,
      token_min : 0..MaxMin, ngram_min : 0..MaxMin,
      min_n : 0..MaxPipeN, max_n : 0..MaxPipeN ]

Closed == [ opened |-> FALSE, lines |-> <<>> ]

Init ==
    /\ cfg \in Configs
    /\ corpus \in SeqsUpTo(CorpusLines, MaxLines)
    /\ pc = "start"
    /\ linesRead = 0
    /\ tokenOut = Closed
    /\ ngramOut = Closed
    /\ token_map = <<>>
    /\ token_vec = <<>>
    /\ idx = 0
    /\ ngram_counts = <<>>
    /\ run = 1
    /\ prevOut = <<>>
    /\ IdleNGrams
    /\ IdleSorted

\* lines 27-36: the token sink is opened for writing and, when NGRAM_COUNTS
\* is given, the n-gram file is created (an existing one is truncated)
OpenSinks ==
    /\ pc = "start"
    /\ tokenOut' = [ opened |-> TRUE, lines |-> <<>> ]
    /\ ngramOut' = IF cfg.ngram_counts
                   THEN [ opened |-> TRUE, lines |-> <<>> ]
                   ELSE ngramOut
    /\ pc' = "opened"
    /\ UNCHANGED <<cfg, corpus, linesRead, token_map, token_vec, idx,
                   ngram_counts, run, prevOut, ngVars, sortVars>>

\* lines 55-59: the two assertions on min_n and max_n
Validate ==
    /\ pc = "opened"
    /\ pc' = IF cfg.min_n = 0 \/ ~(cfg.min_n <= cfg.max_n)
             THEN "aborted" ELSE "counting"
    /\ UNCHANGED <<cfg, corpus, linesRead, tokenOut, ngramOut, token_map,
                   token_vec, idx, ngram_counts, run, prevOut, ngVars, sortVars>>

\* lines 62-71, one turn of the outer loop: a line is read and each of its
\* tokens counted
ReadLine ==
    /\ pc = "counting"
    /\ linesRead < Len(corpus)
    /\ token_map' = AddAll(token_map, SplitWhitespace(corpus[linesRead + 1]), 1)
    /\ linesRead' = linesRead + 1
    /\ UNCHANGED <<cfg, corpus, pc, tokenOut, ngramOut, token_vec, idx,
                   ngram_counts, run, prevOut, ngVars, sortVars>>

\* lines 73-77, at the end of the corpus
SortTokens ==
    /\ pc = "counting"
    /\ linesRead = Len(corpus)
    /\ \E iter \in ExploredOrders(token_map) :
         \E r \in CountedIntoSorted(iter, IF cfg.filter_first
                                          THEN Some(cfg.token_min) ELSE None) :
            token_vec' = r
    /\ idx' = 1
    /\ pc' = IF cfg.ngram_counts THEN "expanding" ELSE "tokens"
    /\ UNCHANGED <<cfg, corpus, linesRead, tokenOut, ngramOut, token_map,
                   ngram_counts, run, prevOut, ngVars, sortVars>>

\* lines 81-102, one turn of the loop over the sorted tokens
ExpandToken ==
    /\ pc = "expanding"
    /\ idx <= Len(token_vec)
    /\ LET token == token_vec[idx][1]
           count == token_vec[idx][2]
           shadow == Shadowed(token, cfg.bracket)
       IN  IF cfg.filter_first /\ count < cfg.token_min
           THEN /\ idx' = idx + 1
                /\ UNCHANGED <<pc, ngram_counts, tokenOut>>
           ELSE \E items \in Drain(NGramsNew(shadow, cfg.min_n, cfg.max_n)) :
                  IF Panicked(items)
                  THEN /\ pc' = "panicked"
                       /\ ngram_counts' =
                            AddAll(ngram_counts,
                                   SubSeq(items, 1, Len(items) - 1), count)
                       /\ UNCHANGED <<idx, tokenOut>>
                  ELSE /\ ngram_counts' = AddAll(ngram_counts, items, count)
                       /\ tokenOut' =
                            [ tokenOut EXCEPT
                                !.lines = Append(@, FormatLine(shadow, count)) ]
                       /\ idx' = idx + 1
                       /\ UNCHANGED pc
    /\ UNCHANGED <<cfg, corpus, linesRead, ngramOut, token_map, token_vec,
                   run, prevOut, ngVars, sortVars>>

\* lines 103-107, after the loop
WriteNgrams ==
    /\ pc = "expanding"
    /\ idx > Len(token_vec)
    /\ \E iter \in ExploredOrders(ngram_counts) :
         \E r \in CountedIntoSorted(iter, Some(cfg.ngram_min)) :
            ngramOut' = [ ngramOut EXCEPT
                            !.lines = @ \o [ i \in 1..Len(r) |->
                                               FormatLine(r[i][1], r[i][2]) ] ]
    /\ pc' = "done"
    /\ UNCHANGED <<cfg, corpus, linesRead, tokenOut, token_map, token_vec, idx,
                   ngram_counts, run, prevOut, ngVars, sortVars>>

\* lines 109-111
WriteTokens ==
    /\ pc = "tokens"
    /\ tokenOut' = [ tokenOut EXCEPT
                       !.lines = @ \o [ i \in 1..Len(token_vec) |->
                                          FormatLine(token_vec[i][1],
                                                     token_vec[i][2]) ] ]
    /\ pc' = "done"
    /\ UNCHANGED <<cfg, corpus, linesRead, ngramOut, token_map, token_vec, idx,
                   ngram_counts, run, prevOut, ngVars, sortVars>>

\* the program is started again on the same corpus and command line; the
\* files keep what the first run wrote until they are opened again
Rerun ==
    /\ pc = "done"
    /\ run = 1
    /\ run' = 2
    /\ prevOut' = <<tokenOut.lines, ngramOut.lines>>
    /\ pc' = "start"
    /\ linesRead' = 0
    /\ tokenOut' = [ tokenOut EXCEPT !.opened = FALSE ]
    /\ ngramOut' = [ ngramOut EXCEPT !.opened = FALSE ]
    /\ token_map' = <<>>
    /\ token_vec' = <<>>
    /\ idx' = 0
    /\ ngram_counts' = <<>>
    /\ UNCHANGED <<cfg, corpus, ngVars, sortVars>>

Next ==
    \/ OpenSinks
    \/ Validate
    \/ ReadLine
    \/ SortTokens
    \/ ExpandToken
    \/ WriteNgrams
    \/ WriteTokens
    \/ Rerun

Spec == Init /\ [][Next]_vars

(* ------------------------ claims about NGrams -------------------------- *)

\* the characters of s, found without the iterator: a character starts at
\* every byte that is no continuation byte
CharStarts(s) == { i \in 0..(Len(s) - 1) : s[i + 1] \notin 128..191 }
NumChars(s) == Cardinality(CharStarts(s))
\* the byte offset at which character k (0-based) starts; Len(s) for k = n
StartOf(s, k) ==
    IF k >= NumChars(s) THEN Len(s)
    ELSE CHOOSE i \in CharStarts(s) :
            Cardinality({ j \in CharStarts(s) : j < i }) = k
\* the substring of L characters that begins at character i
SubChars(s, i, L) == SubSeq(s, StartOf(s, i) + 1, StartOf(s, i + L))

\* the items of start position i: lengths min(max_n, n - i) down to min_n
ExpectedAt(s, i, min_n, max_n) ==
    LET top == Min(max_n, NumChars(s) - i)
    IN  IF top < min_n THEN <<>>
        ELSE [ k \in 1..(top - min_n + 1) |-> SubChars(s, i, top - k + 1) ]

Expected(s, min_n, max_n) ==
    Concat([ k \in 1..NumChars(s) |-> ExpectedAt(s, k - 1, min_n, max_n) ])

\* Sum_i max(0, min(max_n, len(s) - i) - min_n + 1)
ExpectedCount(s, min_n, max_n) ==
    SumSeq([ k \in 1..NumChars(s) |->
               LET d == Min(max_n, NumChars(s) - (k - 1)) - min_n + 1
               IN  IF d > 0 THEN d ELSE 0 ])

IsPrefix(p, s) == Len(p) <= Len(s) /\ p = SubSeq(s, 1, Len(p))

\* C1: the calls of next() up to the first None return exactly, for each
\* start character i in ascending order, the substrings of lengths
\* min(max_n, len - i) down to min_n; their number is
\* Sum_i max(0, min(max_n, len - i) - min_n + 1), which is 0 for a string
\* shorter than min_n and len - k + 1 when min_n = max_n = k <= len.
C1_Sequence ==
    LET s == it.string
        e == Expected(s, it.min_n, it.max_n)
    IN  /\ IsPrefix(emitted, e)
        /\ noneCalls >= 1 =>
             /\ emitted = e
             /\ Len(emitted) = ExpectedCount(s, it.min_n, it.max_n)
             /\ NumChars(s) < it.min_n => Len(emitted) = 0
             /\ (it.min_n = it.max_n /\ it.min_n <= NumChars(s)) =>
                    Len(emitted) = NumChars(s) - it.min_n + 1

C1_Witness ==
    /\ noneCalls >= 1
    /\ it.min_n < it.max_n
    /\ it.max_n < NumChars(it.string)
    /\ Len(emitted) >= 4

\* C2: every returned item is the byte range [a, b) of the string with a
\* the start of a character and b the start of a later character or the
\* byte length; it covers between min_n and max_n whole characters; and
\* the range the iterator is about to slice is such a range too.
AlignedRange(s, r, min_n, max_n) ==
    /\ r[1] \in CharStarts(s)
    /\ r[2] \in CharStarts(s) \cup { Len(s) }
    /\ r[1] < r[2]
    /\ Cardinality({ j \in CharStarts(s) : r[1] <= j /\ j < r[2] })
          \in min_n..max_n

C2_Boundaries ==
    /\ Len(ranges) = Len(emitted)
    /\ \A k \in 1..Len(ranges) :
         /\ AlignedRange(it.string, ranges[k], it.min_n, it.max_n)
         /\ emitted[k] = SubSeq(it.string, ranges[k][1] + 1, ranges[k][2])
    /\ (ipc = "emit" /\ it.char_offsets # <<>>
          /\ it.ngram_len \in 0..Len(it.char_offsets)) =>
         AlignedRange(it.string, EmitRange(it), it.min_n, it.max_n)

C2_Witness ==
    /\ noneCalls >= 1
    /\ \E k \in 1..Len(ranges) :
         /\ ranges[k][1] > 0
         /\ ranges[k][2] < Len(it.string)
         /\ \E j \in (ranges[k][1] + 1)..ranges[k][2] :
               it.string[j] \in 128..191

\* C9 as stated: for "hello", min_n = 2, max_n = 3 the iterator returns
\* exactly hel, he, ell, el, llo, lo, lo, in this order.
HelloItems ==
    << <<104, 101, 108>>, <<104, 101>>, <<101, 108, 108>>, <<101, 108>>,
       <<108, 108, 111>>, <<108, 111>>, <<108, 111>> >>

C9_Hello ==
    (it.string = Hello /\ it.min_n = 2 /\ it.max_n = 3 /\ noneCalls >= 1) =>
        emitted = HelloItems

\* C9 amended: for "hello", min_n = 2, max_n = 3 the iterator returns
\* exactly 7 items: hel, he, ell, el, llo, ll, lo (start 2 gives "llo" and
\* "ll"; "lo" comes once, from start 3).
HelloItemsAmended ==
    << <<104, 101, 108>>, <<104, 101>>, <<101, 108, 108>>, <<101, 108>>,
       <<108, 108, 111>>, <<108, 108>>, <<108, 111>> >>

C9_HelloAmended ==
    (it.string = Hello /\ it.min_n = 2 /\ it.max_n = 3) =>
        /\ IsPrefix(emitted, HelloItemsAmended)
        /\ noneCalls >= 1 =>
             (emitted = HelloItemsAmended /\ Len(emitted) = 7)

C9_Witness ==
    /\ it.string = Hello /\ it.min_n = 2 /\ it.max_n = 3
    /\ noneCalls >= 1
    /\ Len(emitted) = 7

\* C10: whenever next() is about to return an item the window is not
\* empty and min_n <= ngram_len <= min(max_n, window length), so no index
\* is out of the window and the decrement stays at or above 0; no call
\* panics; and after a None every later call returns None.
C10_Window ==
    /\ ipc = "emit" =>
         /\ it.char_offsets # <<>>
         /\ it.min_n <= it.ngram_len
         /\ it.ngram_len <= Min(it.max_n, Len(it.char_offsets))
         /\ EmitOk(it)
    /\ it.ngram_len >= 0 /\ it.ngram_len # USIZE_MAX
    /\ ipc # "panic"
    /\ noneCalls >= 1 => (ipc = "call" /\ lastRet = "None")

C10_Witness ==
    /\ noneCalls >= 2
    /\ Len(emitted) >= 3
    /\ Len(it.string) > NumChars(it.string)

(* ------------------ claims about counted_into_sorted ------------------- *)

\* a comes before b in byte-wise lexicographic order
LexLess(a, b) ==
    \E k \in 1..(Len(b) + 1) :
        /\ k <= Len(a) + 1
        /\ \A i \in 1..(k - 1) : a[i] = b[i]
        /\ \/ k = Len(a) + 1 /\ k <= Len(b)
           \/ k <= Len(a) /\ k <= Len(b) /\ a[k] < b[k]

\* descending count, ascending string
RankSorted(v) ==
    \A i, j \in 1..Len(v) :
        i < j => \/ v[i][2] > v[j][2]
                 \/ v[i][2] = v[j][2] /\ LexLess(v[i][1], v[j][1])

\* the entries of mapping m with a count of at least lo
EntriesFrom(m, lo) == { <<k, m[k]>> : k \in { x \in DOMAIN m : m[x] >= lo } }

\* C3: counted_into_sorted returns exactly the entries with count >= m
\* (all of them without a filter), each once, ordered by descending count
\* and then ascending string; and the filtered result is the unfiltered one
\* with the entries of count < m removed, the order of the rest unchanged.
C3_RankSort ==
    spc = "done" =>
        LET lo == IF filter.some THEN filter.v ELSE 0
        IN  /\ Range(sorted) = EntriesFrom(counts, lo)
            /\ Len(sorted) = Cardinality(EntriesFrom(counts, lo))
            /\ RankSorted(sorted)
            /\ \A iter \in IterOrders(counts) :
                 \A full \in CountedIntoSorted(iter, None) :
                    sorted = SelectSeq(full, LAMBDA e : e[2] >= lo)

C3_Witness ==
    /\ spc = "done"
    /\ filter.some
    /\ Len(sorted) >= 3
    /\ Len(sorted) < Cardinality(DOMAIN counts)
    /\ \E i \in 1..(Len(sorted) - 1) : sorted[i][2] = sorted[i + 1][2]
    /\ \E k \in DOMAIN counts : counts[k] = filter.v

(* ------------------------- claims about main --------------------------- *)

\* the sum of f over the finite set S
RECURSIVE SumSet(_, _)
SumSet(S, f) ==
    IF S = {} THEN 0
    ELSE LET x == CHOOSE y \in S : TRUE
         IN  f[x] + SumSet(S \ { x }, f)

\* Rank-Sort, as the specification words it: the one arrangement of the
\* entries of m with count >= lo that is in descending count, ascending
\* string order, written as sink lines
RankLines(m, lo) ==
    LET v == CHOOSE w \in Perms(EntriesFrom(m, lo)) : RankSorted(w)
    IN  [ i \in 1..Len(v) |-> FormatLine(v[i][1], v[i][2]) ]

\* the run has finished its work in combined mode / in token-only mode
CombinedDone == cfg.ngram_counts /\ pc = "done"
TokenOnlyDone == ~cfg.ngram_counts /\ pc = "done"

\* "ab", min_n = 1, max_n = 2, brackets, token_min = ngram_min = 1, no
\* filter_first, an n-gram sink
ExampleAb ==
    /\ corpus = << <<97, 98>> >>
    /\ cfg = [ ngram_counts |-> TRUE, bracket |-> TRUE, filter_first |-> FALSE,
               token_min |-> 1, ngram_min |-> 1, min_n |-> 1, max_n |-> 2 ]

\* C4: in combined mode with brackets every line of the token sink is a
\* token's own text, without '<' and '>', with its count; for the corpus
\* "ab" of ExampleAb the token sink receives exactly the line ab TAB 1.
C4_TokenSinkUnbracketed ==
    (cfg.ngram_counts /\ cfg.bracket /\ tokenOut.opened) =>
        /\ \A i \in 1..Len(tokenOut.lines) :
             \E tk \in DOMAIN token_map :
                tokenOut.lines[i] = FormatLine(tk, token_map[tk])
        /\ (ExampleAb /\ pc = "done") =>
             tokenOut.lines = << <<97, 98, 9, 49, 10>> >>

\* C5: in token-only mode, with or without filter_first, the token sink
\* receives exactly the tokens with count >= token_min, in Rank-Sort
\* order, and never a record with count < token_min.
C5_TokenOnlyFiltered ==
    /\ TokenOnlyDone => tokenOut.lines = RankLines(token_map, cfg.token_min)
    /\ (~cfg.ngram_counts /\ tokenOut.opened) =>
         \A i \in 1..Len(tokenOut.lines) :
            \A tk \in DOMAIN token_map :
               tokenOut.lines[i] = FormatLine(tk, token_map[tk])
                  => token_map[tk] >= cfg.token_min

\* the tokens that are expanded, and the form in which they are
ExpandedTokens ==
    { tk \in DOMAIN token_map :
        ~cfg.filter_first \/ token_map[tk] >= cfg.token_min }
Form(tk) == IF cfg.bracket THEN <<60>> \o tk \o <<62>> ELSE tk

\* the places <<start character, length>> at which g occurs in s with a
\* length within [min_n, max_n]
Occurrences(g, s) ==
    { p \in (0..(NumChars(s) - 1)) \X (cfg.min_n..cfg.max_n) :
        p[1] + p[2] <= NumChars(s) /\ SubChars(s, p[1], p[2]) = g }

\* the character-aligned substrings of s of a length within [min_n, max_n]
Grams(s) ==
    { SubChars(s, p[1], p[2]) :
        p \in { q \in (0..(NumChars(s) - 1)) \X (cfg.min_n..cfg.max_n) :
                  q[1] + q[2] <= NumChars(s) } }

AllGrams == UNION { Grams(Form(tk)) : tk \in ExpandedTokens }

\* C6 as stated: once all tokens are expanded, the count of every n-gram g
\* is the sum of count(t) over the expanded tokens t that contain g, each
\* token contributing once; no other string is in the mapping.
C6_CountOncePerToken ==
    CombinedDone =>
        /\ DOMAIN ngram_counts = AllGrams
        /\ \A g \in DOMAIN ngram_counts :
             ngram_counts[g] =
               SumSet({ tk \in ExpandedTokens : g \in Grams(Form(tk)) },
                      token_map)

\* C6 amended: once all tokens are expanded, the count of every n-gram g
\* is the sum over the expanded tokens t of count(t) times the number of
\* places at which g occurs in t; no other string is in the mapping.
C6_CountPerOccurrence ==
    CombinedDone =>
        /\ DOMAIN ngram_counts = AllGrams
        /\ \A g \in DOMAIN ngram_counts :
             ngram_counts[g] =
               SumSet(ExpandedTokens,
                      [ tk \in ExpandedTokens |->
                          token_map[tk] * Cardinality(Occurrences(g, Form(tk))) ])

C6_Witness ==
    /\ CombinedDone
    /\ \E g \in DOMAIN ngram_counts :
         \E t1, t2 \in ExpandedTokens :
            /\ t1 # t2
            /\ Cardinality(Occurrences(g, Form(t1))) >= 2
            /\ Cardinality(Occurrences(g, Form(t2))) >= 1
    /\ \E tk \in DOMAIN token_map : token_map[tk] >= 2

\* C7: with min_n = 0 or min_n > max_n the run aborts before the corpus is
\* read, no record is written to either sink, and neither sink has been
\* opened, created or truncated by the run.
C7_AbortTouchesNothing ==
    /\ (cfg.min_n = 0 \/ cfg.min_n > cfg.max_n) =>
         pc \in { "start", "opened", "aborted" }
    /\ pc = "aborted" =>
         /\ linesRead = 0
         /\ tokenOut.lines = <<>> /\ ngramOut.lines = <<>>
         /\ ~tokenOut.opened /\ ~ngramOut.opened

\* C8: a second run on the same corpus and configuration leaves in both
\* sinks exactly the lines the first run left, whatever order the hash
\* maps are iterated in and whatever the sort does with its input.
C8_SameOutput ==
    (run = 2 /\ pc = "done") => <<tokenOut.lines, ngramOut.lines>> = prevOut

C8_Witness ==
    /\ run = 2 /\ pc = "done"
    /\ cfg.ngram_counts
    /\ Len(tokenOut.lines) >= 3
    /\ Len(ngramOut.lines) >= 5
    /\ \E i \in 1..(Len(token_vec) - 1) : token_vec[i][2] = token_vec[i + 1][2]

====
